---- MODULE Spec2Model ----
(***************************************************************************)
(* Model of src/numerov.py: the Numerov integrator numerov_wf and the      *)
(* bound-state search find_bound_state.                                    *)
(*                                                                         *)
(* Floating-point values are modelled as exact extended rationals: a pair  *)
(* <<n, d>> in lowest terms with d > 0 is the number n/d, and the pairs    *)
(* <<1, 0>>, <<-1, 0>> and <<0, 0>> are +inf, -inf and NaN, with the IEEE  *)
(* rules numpy applies to them (x/0 = +-inf, 0/0 = inf - inf = inf*0 =     *)
(* NaN, every comparison with NaN false).  Each operation evaluates its    *)
(* operands once (they are bound through singleton sets) and then applies  *)
(* the rule written in its ...V definition.  Python indices are 0-based;   *)
(* the operator At reads a sequence at a Python index.                     *)
(***************************************************************************)
EXTENDS Integers, Sequences, FiniteSets, TLC

VARIABLES calls, wf

vars == <<calls, wf>>

----------------------------------------------------------------------------
(* Extended rational arithmetic (the float operations of the source).      *)

Abs(x) == IF x < 0 THEN -x ELSE x

Sign(x) == IF x < 0 THEN -1 ELSE IF x > 0 THEN 1 ELSE 0

RECURSIVE Gcd(_, _)
Gcd(a, b) == IF b = 0 THEN a ELSE CHOOSE r \in { Gcd(b, m) : m \in {a % b} } : TRUE

Norm(n, d) ==
    IF d = 0 THEN <<Sign(n), 0>>
    ELSE LET g == Gcd(Abs(n), Abs(d))
         IN  <<Sign(d) * (n \div g), Abs(d) \div g>>

R(x) == <<x, 1>>

Inf == <<1, 0>>

NaN == <<0, 0>>

IsNaN(a) == a = NaN

IsInf(a) == a[2] = 0 /\ a[1] # 0

IsFinite(a) == a[2] > 0

XNeg(x) == CHOOSE r \in { <<-a[1], a[2]>> : a \in {x} } : TRUE

XAbs(x) == CHOOSE r \in { <<Abs(a[1]), a[2]>> : a \in {x} } : TRUE

XAddV(a, b) ==
    IF IsNaN(a) \/ IsNaN(b) THEN NaN
    ELSE IF IsInf(a) THEN (IF IsInf(b) /\ b # a THEN NaN ELSE a)
    ELSE IF IsInf(b) THEN b
    ELSE LET g == Gcd(a[2], b[2])
         IN  Norm(a[1] * (b[2] \div g) + b[1] * (a[2] \div g), (a[2] \div g) * b[2])

XAdd(x, y) == CHOOSE r \in { XAddV(a, b) : a \in {x}, b \in {y} } : TRUE

XSub(x, y) == CHOOSE r \in { XAddV(a, XNeg(b)) : a \in {x}, b \in {y} } : TRUE

XMulV(a, b) ==
    IF IsNaN(a) \/ IsNaN(b) THEN NaN
    ELSE IF IsInf(a) \/ IsInf(b)
         THEN <<Sign(a[1]) * Sign(b[1]), 0>>
    ELSE LET g1 == Gcd(Abs(a[1]), b[2])
             g2 == Gcd(Abs(b[1]), a[2])
         IN  Norm((a[1] \div g1) * (b[1] \div g2), (a[2] \div g2) * (b[2] \div g1))

XMul(x, y) == CHOOSE r \in { XMulV(a, b) : a \in {x}, b \in {y} } : TRUE

XDivV(a, b) ==
    IF IsNaN(a) \/ IsNaN(b) THEN NaN
    ELSE IF IsInf(b) THEN (IF IsInf(a) THEN NaN ELSE R(0))
    ELSE IF b[1] = 0 THEN <<Sign(a[1]), 0>>
    ELSE IF IsInf(a) THEN <<Sign(a[1]) * Sign(b[1]), 0>>
    ELSE XMulV(a, <<Sign(b[1]) * b[2], Abs(b[1])>>)

XDiv(x, y) == CHOOSE r \in { XDivV(a, b) : a \in {x}, b \in {y} } : TRUE

RECURSIVE FracLess(_, _, _, _)
(* n1/d1 < n2/d2 for d1, d2 > 0, by integer parts and then the reciprocals  *)
(* of the fractional parts, so that no product is formed.                  *)
FracLess(n1, d1, n2, d2) ==
    LET q1 == n1 \div d1
        q2 == n2 \div d2
        r1 == n1 % d1
        r2 == n2 % d2
    IN  IF q1 # q2 THEN q1 < q2
        ELSE IF r2 = 0 THEN FALSE
        ELSE IF r1 = 0 THEN TRUE
        ELSE CHOOSE r \in { FracLess(d2, b, d1, a) : a \in {r1}, b \in {r2} } : TRUE

XLessV(a, b) ==
    IF IsNaN(a) \/ IsNaN(b) THEN FALSE
    ELSE IF a = b THEN FALSE
    ELSE IF IsInf(a) THEN a[1] < 0
    ELSE IF IsInf(b) THEN b[1] > 0
    ELSE FracLess(a[1], a[2], b[1], b[2])

XLess(x, y) == CHOOSE r \in { XLessV(a, b) : a \in {x}, b \in {y} } : TRUE

XGreater(a, b) == XLess(b, a)

RECURSIVE XPow(_, _)
XPow(x, k) == IF k = 0 THEN R(1) ELSE XMul(x, XPow(x, k - 1))

At(seq, i) == seq[i + 1]

----------------------------------------------------------------------------
(* numerov_wf: src/numerov.py lines 10-49.                                 *)

\* constants.HBARC; the model works in natural units (hbar*c = 1).
HBARC == 1

reduced_mass(mass_a, mass_b) == XDiv(R(mass_a * mass_b), R(mass_a + mass_b))

\* The lambda of lines 14-18; potential is a function of the radius.
inhomogeneous(energy, l_level, potential, mass_a, mass_b, r) ==
    XSub(XMul(XDiv(XMul(R(2), reduced_mass(mass_a, mass_b)), XPow(R(HBARC), 2)),
              XSub(energy, R(potential[r]))),
         XDiv(R(l_level * (l_level + 1)), XPow(R(r), 2)))

\* r_grid[1] - r_grid[0] of line 19, defined when both indices exist.
r_diff(r_grid) == XSub(R(At(r_grid, 1)), R(At(r_grid, 0)))

\* Lines 20-22: np.zeros(len(r_grid)) with u[0] = 0 and u[1] = r_diff ** (l + 1).
seed_wave_function(l_level, r_grid) ==
    [k \in 1..Len(r_grid) |->
        IF k = 2 THEN XPow(r_diff(r_grid), l_level + 1) ELSE R(0)]

\* h^2 g(r) scaled by the coefficient c, as in "c * r_diff ** 2 * inhomogeneous(r)".
scaled_g(c, energy, l_level, potential, r_grid, mass_a, mass_b, r) ==
    XMul(XMul(c, XPow(r_diff(r_grid), 2)),
         inhomogeneous(energy, l_level, potential, mass_a, mass_b, r))

\* The denominator 1 + (1/12) h^2 g(r_{i+1}) of line 29.
numerov_denominator(energy, l_level, potential, r_grid, mass_a, mass_b, i) ==
    XAdd(R(1), scaled_g(<<1, 12>>, energy, l_level, potential, r_grid,
                        mass_a, mass_b, At(r_grid, i + 1)))

\* numerov_step with g taken at r_i, not r_(i-1), in the u[i - 1] term.
numerov_step_same_radius(u, energy, l_level, potential, r_grid, mass_a, mass_b, i) ==
    XDiv(XSub(XMul(At(u, i),
                   XSub(R(2), scaled_g(<<5, 6>>, energy, l_level, potential, r_grid,
                                       mass_a, mass_b, At(r_grid, i)))),
              XMul(At(u, i - 1),
                   XAdd(R(1), scaled_g(<<1, 12>>, energy, l_level, potential, r_grid,
                                       mass_a, mass_b, At(r_grid, i))))),
         numerov_denominator(energy, l_level, potential, r_grid, mass_a, mass_b, i))

\* The right-hand side of lines 25-29: the value written to u[i + 1].
numerov_step(u, energy, l_level, potential, r_grid, mass_a, mass_b, i) ==
    XDiv(XSub(XMul(At(u, i),
                   XSub(R(2), scaled_g(<<5, 6>>, energy, l_level, potential, r_grid,
                                       mass_a, mass_b, At(r_grid, i)))),
              XMul(At(u, i - 1),
                   XAdd(R(1), scaled_g(<<1, 12>>, energy, l_level, potential, r_grid,
                                       mass_a, mass_b, At(r_grid, i - 1))))),
         numerov_denominator(energy, l_level, potential, r_grid, mass_a, mass_b, i))

RECURSIVE numerov_loop(_, _, _, _, _, _, _, _)
\* The loop of lines 24-29 from index i on: for i in range(1, len(r_grid) - 1).
numerov_loop(u, energy, l_level, potential, r_grid, mass_a, mass_b, i) ==
    IF i >= Len(r_grid) - 1 THEN u
    ELSE CHOOSE w \in
            { numerov_loop([u EXCEPT ![i + 2] = next], energy, l_level, potential,
                           r_grid, mass_a, mass_b, i + 1) :
                next \in { numerov_step(u, energy, l_level, potential, r_grid,
                                        mass_a, mass_b, i) } } : TRUE

\* The Solution of lines 35-49.  u_wave_function is the propagated array; the
\* normalisation applied to it is the scalar factor of get_norm below.
Solution(u, energy, l_level, r_grid) ==
    [kind |-> "Solution", energy |-> energy, u_wave_function |-> u,
     l_level |-> l_level, m_level |-> 0, r_grid |-> r_grid,
     steps |-> Len(r_grid), level |-> 1]

\* What a call of numerov_wf yields: line 19 raises IndexError on a grid with
\* fewer than two points, otherwise a Solution is returned.
numerov_wf(energy, l_level, potential, r_grid, mass_a, mass_b) ==
    IF Len(r_grid) < 2 THEN [kind |-> "IndexError"]
    ELSE CHOOSE s \in
            { Solution(numerov_loop(seed, energy, l_level, potential, r_grid,
                                    mass_a, mass_b, 1),
                       energy, l_level, r_grid) :
                seed \in { seed_wave_function(l_level, r_grid) } } : TRUE

----------------------------------------------------------------------------
(* The solution module (not among the sources): normalisation and the      *)
(* asymptotic amplitude, from sections 4.1 and 4.3 of the specification.   *)

RECURSIVE simpson_sum(_, _)
\* Composite Simpson weights 1 4 2 4 ... 4 1 over the first k samples (k odd)
\* of the squared values; the common factor h/3 is applied by get_norm_sq.
simpson_sum(sq, k) ==
    IF k = 1 THEN R(0)
    ELSE XAdd(simpson_sum(sq, k - 2),
              XAdd(sq[k - 2], XAdd(XMul(R(4), sq[k - 1]), sq[k])))

\* The integral of values^2 over the grid: Simpson's rule, with the trapezoid
\* rule on the last interval of a grid with an even number of points.
get_norm_sq(values, r_grid) ==
    LET n == Len(values)
        h == r_diff(r_grid)
    IN  CHOOSE integral \in
            { IF n % 2 = 1
              THEN XMul(XDiv(h, R(3)), simpson_sum(sq, n))
              ELSE XAdd(XMul(XDiv(h, R(3)), simpson_sum(sq, n - 1)),
                        XMul(XDiv(h, R(2)), XAdd(sq[n - 1], sq[n]))) :
                sq \in { [k \in 1..n |-> XMul(values[k], values[k])] } } : TRUE

\* Solution.abs_at_infinity is |u| at the last grid point of the normalised
\* u = u_raw / sqrt(integral of u_raw^2).  The model carries its square,
\* u_raw[N-1]^2 / integral, which orders the amplitudes as the amplitudes
\* themselves are ordered (both are non-negative, NaN stays NaN).
abs_at_infinity(s) ==
    CHOOSE amplitude \in
        { XDiv(XMul(u[Len(u)], u[Len(u)]), get_norm_sq(u, s.r_grid)) :
            u \in { s.u_wave_function } } : TRUE

----------------------------------------------------------------------------
(* find_bound_state: src/numerov.py lines 52-102.  calls[p] is the frame of *)
(* invocation p: its arguments, its local variables, its position, and     *)
(* observation fields (integrations, bodies, steps, warnings, infos,       *)
(* computed, iter_min, iter_max, history, exit) that record what the       *)
(* invocation did.                                                         *)

Procs == {1, 2}

\* The bound on max_iterations among the inputs.
MaxIterations == 3

\* logging.info every 100 iterations (line 76).
LogEvery == 100

SearchGrid == <<1, 2, 3>>

Potentials ==
    { [r \in {1, 2, 3} |-> 0],
      [r \in {1, 2, 3} |-> IF r = 2 THEN -1 ELSE 0],
      [r \in {1, 2, 3} |-> IF r = 3 THEN 6 ELSE 0] }

Brackets == { <<-2, 0>>, <<-1, 1>>, <<0, 2>>, <<-2, 2>>, <<0, 0>>, <<1, -1>> }

ExitParams == { <<-1, 1>>, <<0, 1>>, <<1, 4>>, <<1, 1>> }

Arguments ==
    { [potential |-> v, r_grid |-> SearchGrid, mass_a |-> 2, mass_b |-> 2,
       l_level |-> 0, min_energy |-> R(b[1]), max_energy |-> R(b[2]),
       exit_param |-> x, max_iterations |-> m] :
        v \in Potentials, b \in Brackets, x \in ExitParams,
        m \in -1..MaxIterations }

\* The frame on entry to find_bound_state, before line 63 has run.
Frame(a, pc) ==
    [args |-> a, pc |-> pc,
     min_energy |-> a.min_energy, max_energy |-> a.max_energy,
     min_energy_solution |-> [kind |-> "unset"],
     max_energy_solution |-> [kind |-> "unset"],
     solution |-> [kind |-> "unset"],
     previous_energy |-> NaN, i |-> 0,
     integrations |-> 0, bodies |-> 0, steps |-> 0,
     warnings |-> 0, infos |-> 0, computed |-> {},
     iter_min |-> a.min_energy, iter_max |-> a.max_energy,
     history |-> <<>>, exit |-> "none"]

\* numerov_wf as find_bound_state calls it: every argument but the energy is
\* the invocation's own.
integrate(a, energy) ==
    numerov_wf(energy, a.l_level, a.potential, a.r_grid, a.mass_a, a.mass_b)

\* min(min_energy_solution, max_energy_solution, key=abs_at_infinity), line 69:
\* Python's min keeps the first argument unless the second is strictly smaller.
min_by_amplitude(first, second) ==
    IF XLess(abs_at_infinity(second), abs_at_infinity(first)) THEN second ELSE first

\* The while condition of line 74.
loop_condition(c) ==
    XGreater(XAbs(XSub(c.previous_energy, c.solution.energy)), c.args.exit_param)

\* Mutant: the limit test off by one.
max_iterations_reached_late(i, max_iterations) == i > max_iterations + 1

\* "i > max_iterations" of line 80, on the incremented counter.
max_iterations_reached(i, max_iterations) == i > max_iterations

\* Mutant: the comparison of line 91 the other way round.
moves_min_swapped(c) ==
    XLess(abs_at_infinity(c.min_energy_solution),
          abs_at_infinity(c.max_energy_solution))

\* The test of line 91: TRUE when min_energy is the boundary that moves.
moves_min(c) ==
    XLess(abs_at_infinity(c.max_energy_solution),
          abs_at_infinity(c.min_energy_solution))

\* Mutant: the trial energy is the lower boundary instead of the midpoint.
average_lower(max_energy, min_energy) == min_energy

\* Line 84.
average(max_energy, min_energy) == XDiv(XAdd(max_energy, min_energy), R(2))

\* Mutant: the current Solution is replaced only by a better midpoint.
current_solution_best(solution, average_energy_solution) ==
    IF XLess(abs_at_infinity(average_energy_solution), abs_at_infinity(solution))
    THEN average_energy_solution ELSE solution

\* Line 89: the midpoint Solution becomes the current Solution.
current_solution(solution, average_energy_solution) == average_energy_solution

\* Mutant: the boundary is reflected about the trial energy.
move_boundary_reflected(boundary, average_energy) ==
    XSub(XMul(R(2), average_energy), boundary)

\* Mutant: the boundary moves all the way to the trial energy, as in a
\* bisection.
move_boundary_to_average(boundary, average_energy) == average_energy

\* Lines 92 and 97: the moved boundary.
move_boundary(boundary, average_energy) ==
    XDiv(XAdd(boundary, average_energy), R(2))

\* The logging.info of lines 76-79, counted.
log_info(c, i) == c.infos + (IF i % LogEvery = 0 THEN 1 ELSE 0)

\* Lines 63-73 on the frame c.
call_frame(c) ==
    CHOOSE frame \in
        { IF max_sol.kind # "Solution"
          THEN [c EXCEPT !.pc = "raised", !.exit = max_sol.kind,
                         !.integrations = 1, !.steps = c.steps + 1]
          ELSE [c EXCEPT !.pc = "while",
                         !.max_energy_solution = max_sol,
                         !.min_energy_solution = min_sol,
                         !.solution = min_by_amplitude(min_sol, max_sol),
                         !.previous_energy = Inf,
                         !.i = 0,
                         !.integrations = 2,
                         !.steps = c.steps + 1,
                         !.computed = {min_sol, max_sol}] :
            max_sol \in { integrate(c.args, c.max_energy) },
            min_sol \in { integrate(c.args, c.min_energy) } } : TRUE

\* Line 74 evaluating to false, then line 102.
converged_frame(c) ==
    [c EXCEPT !.pc = "returned", !.exit = "tolerance", !.steps = c.steps + 1]

\* Mutant: the break is taken without the warning.
exhausted_frame_silent(c) ==
    [c EXCEPT !.pc = "returned", !.exit = "max_iterations",
              !.i = c.i + 1,
              !.infos = log_info(c, c.i + 1),
              !.steps = c.steps + 1]

\* Lines 74-82 with the break taken, then line 102.
exhausted_frame(c) ==
    [c EXCEPT !.pc = "returned", !.exit = "max_iterations",
              !.i = c.i + 1,
              !.infos = log_info(c, c.i + 1),
              !.warnings = c.warnings + 1,
              !.steps = c.steps + 1]

\* Lines 74-80 with the break not taken.
continue_frame(c) ==
    [c EXCEPT !.pc = "body", !.i = c.i + 1, !.infos = log_info(c, c.i + 1),
              !.steps = c.steps + 1]

\* Lines 84-100 on the frame c.
body_frame(c) ==
    CHOOSE frame \in
        { LET common == [c EXCEPT !.pc = "while",
                                  !.previous_energy = c.solution.energy,
                                  !.solution = current_solution(c.solution, average_sol),
                                  !.integrations = c.integrations + 2,
                                  !.bodies = c.bodies + 1,
                                  !.steps = c.steps + 1,
                                  !.iter_min = c.min_energy,
                                  !.iter_max = c.max_energy,
                                  !.computed = c.computed \cup {average_sol, moved_sol}]
          IN  IF moves_min(c)
              THEN [common EXCEPT !.min_energy = moved,
                                  !.min_energy_solution = moved_sol]
              ELSE [common EXCEPT !.max_energy = moved,
                                  !.max_energy_solution = moved_sol] :
            average_energy \in { average(c.max_energy, c.min_energy) },
            average_sol \in
                { integrate(c.args, average(c.max_energy, c.min_energy)) },
            moved \in
                { move_boundary(IF moves_min(c) THEN c.min_energy ELSE c.max_energy,
                                average(c.max_energy, c.min_energy)) },
            moved_sol \in
                { integrate(c.args,
                    move_boundary(IF moves_min(c) THEN c.min_energy ELSE c.max_energy,
                                  average(c.max_energy, c.min_energy))) } } : TRUE

\* The frame c with its (min_energy, max_energy, current energy, i) appended
\* to the record of the states the invocation has passed through.
observe(c) ==
    [c EXCEPT !.history =
        Append(@, <<c.min_energy, c.max_energy,
                    IF c.solution.kind = "Solution" THEN c.solution.energy ELSE NaN,
                    c.i>>)]

\* Mutant: the iteration counter is a module-level variable that the other
\* invocation has advanced.
Call_shared_counter(p) ==
    /\ calls[p].pc = "call"
    /\ calls' = [calls EXCEPT ![p] =
          observe([call_frame(calls[p]) EXCEPT !.i = calls[3 - p].i])]
    /\ UNCHANGED wf

Call(p) ==
    /\ calls[p].pc = "call"
    /\ calls' = [calls EXCEPT ![p] = observe(call_frame(calls[p]))]
    /\ UNCHANGED wf

WhileConverged(p) ==
    /\ calls[p].pc = "while"
    /\ ~loop_condition(calls[p])
    /\ calls' = [calls EXCEPT ![p] = observe(converged_frame(calls[p]))]
    /\ UNCHANGED wf

WhileExhausted(p) ==
    /\ calls[p].pc = "while"
    /\ loop_condition(calls[p])
    /\ max_iterations_reached(calls[p].i + 1, calls[p].args.max_iterations)
    /\ calls' = [calls EXCEPT ![p] = observe(exhausted_frame(calls[p]))]
    /\ UNCHANGED wf

WhileContinue(p) ==
    /\ calls[p].pc = "while"
    /\ loop_condition(calls[p])
    /\ ~max_iterations_reached(calls[p].i + 1, calls[p].args.max_iterations)
    /\ calls' = [calls EXCEPT ![p] = observe(continue_frame(calls[p]))]
    /\ UNCHANGED wf

\* Mutant: the bracket is kept in module-level variables, which hold what
\* the other invocation wrote last.
Body_shared_bracket(p) ==
    /\ calls[p].pc = "body"
    /\ calls' = [calls EXCEPT ![p] =
          observe(body_frame([calls[p] EXCEPT !.min_energy = calls[3 - p].min_energy,
                                              !.max_energy = calls[3 - p].max_energy]))]
    /\ UNCHANGED wf

\* Mutant: the boundary energy moves but its cached Solution is not
\* integrated again.
Body_stale_cache(p) ==
    /\ calls[p].pc = "body"
    /\ calls' = [calls EXCEPT ![p] =
          observe([body_frame(calls[p]) EXCEPT
                      !.min_energy_solution = calls[p].min_energy_solution,
                      !.max_energy_solution = calls[p].max_energy_solution])]
    /\ UNCHANGED wf

Body(p) ==
    /\ calls[p].pc = "body"
    /\ calls' = [calls EXCEPT ![p] = observe(body_frame(calls[p]))]
    /\ UNCHANGED wf

Step(p) ==
    \/ Call(p)
    \/ WhileConverged(p)
    \/ WhileExhausted(p)
    \/ WhileContinue(p)
    \/ Body(p)

IdleFrame == Frame(CHOOSE a \in Arguments : TRUE, "idle")

IdleRun == [pc |-> "idle"]

\* One invocation, with any arguments.
Init ==
    /\ \E a \in Arguments : calls = [p \in Procs |-> IF p = 1 THEN Frame(a, "call")
                                                     ELSE IdleFrame]
    /\ wf = IdleRun

Next == \E p \in Procs : Step(p)

Spec == Init /\ [][Next]_vars

\* The interpreter runs a started call to its end: it never stops between
\* two statements of find_bound_state.
FairSpec == Spec /\ WF_vars(Next)

\* The arguments of the invocations that run side by side.
ConcArguments ==
    { a \in Arguments :
        /\ a.max_iterations \in {1, MaxIterations - 1}
        /\ a.exit_param \in { <<0, 1>>, <<1, 4>> }
        /\ a.potential[2] = 0
        /\ <<a.min_energy, a.max_energy>> \in { <<R(-2), R(0)>>, <<R(-1), R(1)>> } }

\* Two invocations, each with any arguments, their steps interleaved.
ConcInit ==
    /\ \E a, b \in ConcArguments : calls = [p \in Procs |-> IF p = 1 THEN Frame(a, "call")
                                                                ELSE Frame(b, "call")]
    /\ wf = IdleRun

ConcSpec == ConcInit /\ [][Next]_vars

\* What the next statement block of find_bound_state makes of the frame c.
next_frame(c) ==
    IF c.pc = "call" THEN observe(call_frame(c))
    ELSE IF c.pc = "body" THEN observe(body_frame(c))
    ELSE IF c.pc # "while" THEN c
    ELSE IF ~loop_condition(c) THEN observe(converged_frame(c))
    ELSE IF max_iterations_reached(c.i + 1, c.args.max_iterations)
         THEN observe(exhausted_frame(c))
    ELSE observe(continue_frame(c))

RECURSIVE Alone(_, _)
\* The frame of an invocation with arguments a that has run k steps with no
\* other invocation in the program.
Alone(a, k) ==
    IF k = 0 THEN Frame(a, "call")
    ELSE CHOOSE f \in { next_frame(c) : c \in { Alone(a, k - 1) } } : TRUE

Active == { p \in Procs : calls[p].pc # "idle" }

Max0(n) == IF n < 0 THEN 0 ELSE n

XLessEq(a, b) == XLess(a, b) \/ (a = b /\ ~IsNaN(a))

----------------------------------------------------------------------------
(* One invocation of numerov_wf, statement by statement.  wf holds its     *)
(* arguments, the buffer u_wave_function, the loop index i and what the    *)
(* invocation ended with; r_grid is the caller's array as it is now,       *)
(* written the indices of u_wave_function assigned so far, in order, and   *)
(* early_reads the indices of u_wave_function read before being assigned.  *)

\* The bound on len(r_grid) among the inputs.
MaxGridLen == 4

\* The uniform grid of n points r0, r0 + h, ...
Grid(n, r0, h) == [k \in 1..n |-> r0 + (k - 1) * h]

Radii == 1..(1 + 2 * (MaxGridLen + 1))

WfPotentials ==
    { [r \in Radii |-> 0],
      [r \in Radii |-> IF r = 3 THEN 6 ELSE 0],
      [r \in Radii |-> IF r = 2 THEN -1 ELSE 1] }

\* The pairs <<l_level, grid spacing>> among the inputs.
WfShapes == { <<0, 1>>, <<0, 2>>, <<1, 1>> }

WfArguments ==
    { [energy |-> R(e), l_level |-> lh[1], potential |-> v,
       r_grid |-> Grid(n, 1, lh[2]), mass_a |-> 2, mass_b |-> 2] :
        e \in {-1, 0, 1}, lh \in WfShapes, v \in WfPotentials,
        n \in 0..MaxGridLen }

Run(a) == [pc |-> "start", args |-> a, u_wave_function |-> <<>>, i |-> 0,
           outcome |-> [kind |-> "none"], r_grid |-> a.r_grid,
           written |-> <<>>, early_reads |-> {}]

\* The indices among those read that have not been assigned yet.
unassigned(written, read) ==
    { k \in read : \A j \in 1..Len(written) : written[j] # k }

\* Lines 13-22: line 19 reads r_grid[1] and r_grid[0] before anything is built.
WfSeed ==
    /\ wf.pc = "start"
    /\ wf' = IF Len(wf.r_grid) < 2
             THEN [wf EXCEPT !.pc = "raised", !.outcome = [kind |-> "IndexError"]]
             ELSE [wf EXCEPT !.pc = "loop", !.i = 1,
                     !.u_wave_function =
                         seed_wave_function(wf.args.l_level, wf.r_grid),
                     !.written = <<0, 1>>]
    /\ UNCHANGED calls

\* One iteration of the loop of lines 24-29.
WfStep ==
    /\ wf.pc = "loop"
    /\ wf.i < Len(wf.r_grid) - 1
    /\ wf' = [wf EXCEPT !.i = wf.i + 1,
                !.u_wave_function[wf.i + 2] =
                    numerov_step(wf.u_wave_function, wf.args.energy, wf.args.l_level,
                                 wf.args.potential, wf.r_grid, wf.args.mass_a,
                                 wf.args.mass_b, wf.i),
                !.early_reads = wf.early_reads
                                  \cup unassigned(wf.written, {wf.i, wf.i - 1}),
                !.written = Append(wf.written, wf.i + 1)]
    /\ UNCHANGED calls

\* Lines 31-49, once the loop is over.
WfReturn ==
    /\ wf.pc = "loop"
    /\ wf.i >= Len(wf.r_grid) - 1
    /\ wf' = [wf EXCEPT !.pc = "done",
                !.outcome = Solution(wf.u_wave_function, wf.args.energy,
                                     wf.args.l_level, wf.r_grid)]
    /\ UNCHANGED calls

WfInit ==
    /\ calls = [p \in Procs |-> IdleFrame]
    /\ \E a \in WfArguments : wf = Run(a)

WfNext == WfSeed \/ WfStep \/ WfReturn

\* One invocation of numerov_wf, with any arguments.
WfSpec == WfInit /\ [][WfNext]_vars

\* The statement-by-statement run ends with what the operator numerov_wf gives.
WfAgrees ==
    wf.pc \in {"done", "raised"} =>
        wf.outcome = numerov_wf(wf.args.energy, wf.args.l_level, wf.args.potential,
                                wf.args.r_grid, wf.args.mass_a, wf.args.mass_b)

----------------------------------------------------------------------------
(* Claims.                                                                 *)

\* C1 (as claimed): a call with min_energy >= max_energy is rejected before
\* any integration: it performs no integration, never enters the loop, and
\* ends in an InvalidBracket error.
C1_InvalidBracketRejected ==
    \A p \in Active :
        LET c == calls[p]
        IN  ~XLess(c.args.min_energy, c.args.max_energy) =>
                /\ c.integrations = 0
                /\ c.pc \in {"call", "raised"}
                /\ (c.pc = "raised" => c.exit = "InvalidBracket")

\* C2 (as claimed): when a call returns, its loop body has run at most
\* max_iterations times and it has performed at most 2 + 2*max_iterations
\* integrations; with max_iterations <= 0 the body never runs.
C2_BoundAsClaimed ==
    \A p \in Active :
        LET c == calls[p]
        IN  c.pc = "returned" =>
                /\ c.bodies <= c.args.max_iterations
                /\ c.integrations <= 2 + 2 * c.args.max_iterations
                /\ (c.args.max_iterations <= 0 => c.bodies = 0)

C2_Bound ==
    \A p \in Active :
        LET c == calls[p]
            m == Max0(c.args.max_iterations)
        IN  /\ c.bodies <= m
            /\ c.integrations <= 2 + 2 * m
            /\ c.i <= m + 1
            /\ (c.args.max_iterations <= 0 => c.bodies = 0)

C2_Returned == \A p \in Active : calls[p].pc = "returned"

\* C2 (amended): every call returns, its loop body runs at most
\* max(max_iterations, 0) times and it performs at most
\* 2 + 2*max(max_iterations, 0) integrations; with max_iterations <= 0 the
\* body never runs.
C2_Terminates == []C2_Bound /\ <>C2_Returned

\* C2 witness: a call with max_iterations >= 2 returned after running the
\* body max_iterations times, at the integration bound.
C2_Witness ==
    \E p \in Active :
        LET c == calls[p]
        IN  /\ c.pc = "returned"
            /\ c.args.max_iterations >= 2
            /\ c.bodies = c.args.max_iterations
            /\ c.integrations = 2 + 2 * c.args.max_iterations

Returned(c) == c.pc = "returned"

\* The energy halfway between the boundaries the last executed iteration
\* started from.
LastMidpoint(c) == XDiv(XAdd(c.iter_min, c.iter_max), R(2))

AllFinite(u) == \A k \in 1..Len(u) : IsFinite(u[k])

\* A call within the documented preconditions whose integrations all gave
\* finite wavefunctions: min_energy < max_energy, exit_param >= 0.
WellFormed(c) ==
    /\ XLess(c.args.min_energy, c.args.max_energy)
    /\ ~XLess(c.args.exit_param, R(0))
    /\ \A s \in c.computed : AllFinite(s.u_wave_function)

\* C3 (as claimed): a call that stops because max_iterations is exceeded
\* returns a Solution whose asymptotic amplitude is minimal among all the
\* Solutions computed during the call (stated for calls within the
\* preconditions whose integrations were all finite).
C3_BestReturned ==
    \A p \in Active :
        LET c == calls[p]
        IN  (Returned(c) /\ c.exit = "max_iterations" /\ WellFormed(c)) =>
                \A s \in c.computed :
                    ~XLess(abs_at_infinity(s), abs_at_infinity(c.solution))

\* C3 (amended): a call that stops because max_iterations is exceeded returns
\* its current Solution: the midpoint Solution of the last executed iteration
\* or, when no iteration ran, the initial boundary Solution with the smaller
\* amplitude (min_energy's unless max_energy's is strictly smaller).
C3_CurrentReturned ==
    \A p \in Active :
        LET c == calls[p]
        IN  (Returned(c) /\ c.exit = "max_iterations") =>
                /\ c.solution \in c.computed
                /\ c.bodies >= 1 => c.solution.energy = LastMidpoint(c)
                /\ c.bodies = 0 =>
                      /\ c.solution \in {c.min_energy_solution, c.max_energy_solution}
                      /\ ~XLess(abs_at_infinity(c.min_energy_solution),
                                abs_at_infinity(c.solution))
                      /\ ~XLess(abs_at_infinity(c.max_energy_solution),
                                abs_at_infinity(c.solution))
                      /\ (c.solution # c.min_energy_solution =>
                            XLess(abs_at_infinity(c.max_energy_solution),
                                  abs_at_infinity(c.min_energy_solution)))

\* C3 witness: a call returned on max_iterations after at least one iteration
\* although it had computed a Solution of strictly smaller amplitude.
C3_Witness ==
    \E p \in Active :
        LET c == calls[p]
        IN  /\ Returned(c) /\ c.exit = "max_iterations" /\ c.bodies >= 1
            /\ WellFormed(c)
            /\ \E s \in c.computed :
                  XLess(abs_at_infinity(s), abs_at_infinity(c.solution))

\* C4: the warning of line 81 is the non-convergence indicator.  It is
\* raised at most once and only on return; a call returns with it raised
\* exactly when |previous_energy - current energy| > exit_param still holds,
\* which happens only with the counter beyond max_iterations, and returns
\* without it when the tolerance is met, the counter being within
\* max_iterations.
C4_IndicatorExact ==
    \A p \in Active :
        LET c == calls[p]
        IN  /\ c.warnings \in {0, 1}
            /\ (~Returned(c) => c.warnings = 0)
            /\ Returned(c) =>
                  /\ (c.warnings = 1) = loop_condition(c)
                  /\ (c.warnings = 1) = (c.exit = "max_iterations")
                  /\ (c.warnings = 1 => c.i > c.args.max_iterations)
                  /\ (c.warnings = 0 => c.i <= c.args.max_iterations)

\* C4 witness: the tolerance is met exactly on iteration max_iterations and
\* the call returns without a warning.
C4_Witness ==
    \E p \in Active :
        LET c == calls[p]
        IN  /\ Returned(c) /\ c.warnings = 0
            /\ c.bodies = c.args.max_iterations
            /\ c.args.max_iterations >= 1

\* C5: a call that returns because the tolerance is met has run the body at
\* least once and returns the midpoint Solution of its last iteration: its
\* energy is (min_energy + max_energy)/2 of the bracket that iteration
\* started from and is within exit_param of the energy of the previous
\* current Solution; for min_energy < max_energy it lies strictly between
\* the initial boundaries, so it is neither initial boundary Solution.
C5_MidpointReturned ==
    \A p \in Active :
        LET c == calls[p]
        IN  (Returned(c) /\ c.exit = "tolerance") =>
                /\ c.bodies >= 1
                /\ c.args.max_iterations >= 1
                /\ c.solution.energy = LastMidpoint(c)
                /\ c.solution = integrate(c.args, LastMidpoint(c))
                /\ XLessEq(XAbs(XSub(c.previous_energy, c.solution.energy)),
                           c.args.exit_param)
                /\ (XLess(c.args.min_energy, c.args.max_energy) =>
                      /\ XLess(c.args.min_energy, c.solution.energy)
                      /\ XLess(c.solution.energy, c.args.max_energy))

\* C5 witness: a call with min_energy < max_energy returned on tolerance
\* after two iterations.
C5_Witness ==
    \E p \in Active :
        LET c == calls[p]
        IN  /\ Returned(c) /\ c.exit = "tolerance" /\ c.bodies >= 2
            /\ XLess(c.args.min_energy, c.args.max_energy)

\* The recursion of numerov_wf at the given energy divides by exactly zero
\* at some grid point.
Degenerate(a, energy) ==
    \E i \in 1..(Len(a.r_grid) - 2) :
        numerov_denominator(energy, a.l_level, a.potential, a.r_grid,
                            a.mass_a, a.mass_b, i) = R(0)

\* C6 (as claimed): an integration whose denominator vanishes does not yield
\* a Solution, and a call one of whose integrations is degenerate stops with
\* a numerical-degeneracy outcome instead of going on.
C6_DegeneracySurfaced ==
    \A p \in Active :
        LET c == calls[p]
        IN  /\ \A s \in c.computed :
                  Degenerate(c.args, s.energy) => s.kind # "Solution"
            /\ (\E s \in c.computed : Degenerate(c.args, s.energy)) =>
                  (c.pc = "raised" /\ c.exit = "NumericalDegeneracy")

\* C7 (as claimed): on a grid of fewer than 3 points numerov_wf completes
\* and yields a Solution that is recognisably invalid (it holds non-finite
\* data); it does not abort with an error and does not yield a finite Solution.
C7_ShortGridInvalidSolution ==
    (wf.pc \in {"done", "raised"} /\ Len(wf.args.r_grid) < 3) =>
        /\ wf.pc = "done"
        /\ wf.outcome.kind = "Solution"
        /\ ~AllFinite(wf.outcome.u_wave_function)

IsPrefix(s, t) == Len(s) <= Len(t) /\ SubSeq(t, 1, Len(s)) = s

\* C8: with the steps of two invocations interleaved in any order, each
\* invocation is at every moment in the state it has after as many steps when
\* run alone: the same brackets, cached Solutions, current Solution,
\* previous_energy and counter, and the same returned Solution.
C8_Isolated ==
    \A p \in Active : calls[p] = Alone(calls[p].args, calls[p].steps)

\* C8 witness: two invocations with different arguments are both inside
\* their loops, each having completed an iteration.
C8_Witness ==
    /\ calls[1].pc = "body" /\ calls[2].pc = "body"
    /\ calls[1].args # calls[2].args
    /\ calls[1].bodies >= 1 /\ calls[2].bodies >= 1

ThreeQuarters(moved, other) == XDiv(XAdd(XMul(R(3), moved), other), R(4))

\* The frame d follows the frame c by an iteration that moved min_energy and
\* left max_energy and its cached Solution alone.
MinMoved(c, d) ==
    /\ d.min_energy = ThreeQuarters(c.min_energy, c.max_energy)
    /\ d.min_energy_solution = integrate(c.args, d.min_energy)
    /\ d.max_energy = c.max_energy
    /\ d.max_energy_solution = c.max_energy_solution

MaxMoved(c, d) ==
    /\ d.max_energy = ThreeQuarters(c.max_energy, c.min_energy)
    /\ d.max_energy_solution = integrate(c.args, d.max_energy)
    /\ d.min_energy = c.min_energy
    /\ d.min_energy_solution = c.min_energy_solution

MoveRule(c, d) ==
    LET amp_min == abs_at_infinity(c.min_energy_solution)
        amp_max == abs_at_infinity(c.max_energy_solution)
    IN  /\ XGreater(amp_min, amp_max) => MinMoved(c, d)
        /\ XGreater(amp_max, amp_min) => MaxMoved(c, d)
        /\ amp_min = amp_max => MaxMoved(c, d)
        /\ MinMoved(c, d) \/ MaxMoved(c, d)
        /\ c.min_energy # c.max_energy => ~(MinMoved(c, d) /\ MaxMoved(c, d))

\* C10: every iteration moves exactly one boundary to (3*moved + other)/4 and
\* leaves the other boundary and its cached Solution unchanged; the boundary
\* that moves is the one whose cached Solution, as it was before the move, has
\* the larger asymptotic amplitude, and max_energy when the two are equal.
C10_OneBoundaryMoves ==
    [][\A p \in Procs :
          (calls[p].pc = "body" /\ calls'[p].pc = "while") =>
              MoveRule(calls[p], calls'[p])]_vars

\* C10 witness: a call within the preconditions in which both boundaries
\* have been moved.
C10_Witness ==
    \E p \in Active :
        LET c == calls[p]
        IN  /\ c.pc = "while" /\ WellFormed(c)
            /\ c.min_energy # c.args.min_energy
            /\ c.max_energy # c.args.max_energy

\* The value the recursion assigns to u[i + 1] from u[i] and u[i - 1], for the
\* driving function g and the spacing h:
\* (u[i]*(2 - (5/6) h^2 g(r_i)) - u[i-1]*(1 + (1/12) h^2 g(r_(i-1))))
\*   / (1 + (1/12) h^2 g(r_(i+1))).
Recursion(u, g, h, i) ==
    LET hh == XMul(h, h)
    IN  XDiv(XSub(XMul(At(u, i),
                       XSub(R(2), XMul(XMul(<<5, 6>>, hh), At(g, i)))),
                  XMul(At(u, i - 1),
                       XAdd(R(1), XMul(XMul(<<1, 12>>, hh), At(g, i - 1))))),
             XAdd(R(1), XMul(XMul(<<1, 12>>, hh), At(g, i + 1))))

\* C11: once seeded, the buffer of numerov_wf has the length of r_grid, holds
\* u[0] = 0 and u[1] = h^(l+1) with h = r_1 - r_0, and every u[k + 1] for the
\* iterations k = 1 .. i-1 already executed is the recursion's value from
\* u[k] and u[k - 1]; the indices assigned so far are 0, 1, ..., i in that
\* order, once each, no index was read before it was assigned, and r_grid is
\* as the caller passed it; at the return every index up to N-1 has been
\* assigned and the Solution carries this buffer.
C11_BufferFilled ==
    LET a == wf.args
        u == wf.u_wave_function
        N == Len(a.r_grid)
        h == XSub(R(At(a.r_grid, 1)), R(At(a.r_grid, 0)))
        g == [k \in 1..N |->
                inhomogeneous(a.energy, a.l_level, a.potential,
                              a.mass_a, a.mass_b, a.r_grid[k])]
    IN  wf.pc \in {"loop", "done"} =>
            /\ Len(u) = N
            /\ wf.r_grid = a.r_grid
            /\ At(u, 0) = R(0)
            /\ At(u, 1) = XPow(h, a.l_level + 1)
            /\ wf.i >= 1 /\ wf.i <= N - 1
            /\ wf.written = [k \in 1..(wf.i + 1) |-> k - 1]
            /\ wf.early_reads = {}
            /\ \A k \in 1..(wf.i - 1) : At(u, k + 1) = Recursion(u, g, h, k)
            /\ wf.pc = "done" =>
                  /\ wf.i = N - 1
                  /\ wf.outcome.u_wave_function = u
                  /\ wf.outcome.r_grid = a.r_grid

\* C11 witness: an invocation with l = 1 on a grid of at least 4 points and a
\* potential that varies along it has returned a finite buffer whose last
\* sample is not zero.
C11_Witness ==
    /\ wf.pc = "done"
    /\ Len(wf.args.r_grid) >= 4
    /\ wf.args.l_level = 1
    /\ \E k \in 1..Len(wf.args.r_grid) :
          wf.args.potential[wf.args.r_grid[k]] # wf.args.potential[wf.args.r_grid[1]]
    /\ AllFinite(wf.u_wave_function)
    /\ wf.u_wave_function[Len(wf.u_wave_function)] # R(0)

\* The Solution s is what integrating at the energy on the invocation's own
\* r_grid, potential, masses and l gives, and it carries that energy.
FreshAt(c, s, energy) ==
    /\ s.kind = "Solution"
    /\ s.energy = energy
    /\ s.r_grid = c.args.r_grid
    /\ s.l_level = c.args.l_level
    /\ s = integrate(c.args, energy)

\* C12: at the start of every loop iteration, inside it before the boundary
\* moves, and at return, min_energy_solution is the Solution integrated at
\* the current min_energy and max_energy_solution the one integrated at the
\* current max_energy, both on the invocation's r_grid, potential, masses
\* and l.
C12_CachesFresh ==
    \A p \in Active :
        LET c == calls[p]
        IN  c.pc \in {"while", "body", "returned"} =>
                /\ FreshAt(c, c.min_energy_solution, c.min_energy)
                /\ FreshAt(c, c.max_energy_solution, c.max_energy)

\* C12 witness: a call within the preconditions has returned after both of
\* its boundaries, and so both cached Solutions, were replaced.
C12_Witness ==
    \E p \in Active :
        LET c == calls[p]
        IN  /\ Returned(c) /\ WellFormed(c) /\ c.bodies >= 2
            /\ c.min_energy # c.args.min_energy
            /\ c.max_energy # c.args.max_energy
            /\ c.min_energy_solution.energy # c.args.min_energy
            /\ c.max_energy_solution.energy # c.args.max_energy

Width(min_energy, max_energy) == XSub(max_energy, min_energy)

\* The value of |previous_energy - current energy| that line 74 sees once k
\* iterations have been executed, for the initial width w0: infinite before
\* the first iteration, |w0|/2 after it, and after iteration k >= 2 one eighth
\* of the width at the start of iteration k - 1, |w0| * (3/4)^(k-2) / 8.
Comparison(k, w0) ==
    IF k = 0 THEN Inf
    ELSE IF k = 1 THEN XDiv(XAbs(w0), R(2))
    ELSE XDiv(XMul(XAbs(w0), XPow(<<3, 4>>, k - 2)), R(8))

RECURSIVE IterationsFrom(_, _, _, _)
\* The number of iterations executed, from k executed ones on, computed from
\* the initial width, exit_param and max_iterations only.
IterationsFrom(k, w0, exit_param, max_iterations) ==
    IF XGreater(Comparison(k, w0), exit_param) /\ k + 1 <= max_iterations
    THEN IterationsFrom(k + 1, w0, exit_param, max_iterations)
    ELSE k

\* The frame d follows the frame c by one iteration: the width is multiplied
\* by 3/4, and the pair (previous_energy, current energy) the iteration forms
\* in lines 88-89 differs by half the initial width in the first iteration
\* and, in a later one, by one eighth of the width the bracket had before
\* the move of the iteration before (c.iter_min, c.iter_max).
IterationRule(c, d) ==
    /\ Width(d.min_energy, d.max_energy)
          = XMul(<<3, 4>>, Width(c.min_energy, c.max_energy))
    /\ XAbs(XSub(d.previous_energy, d.solution.energy))
          = IF c.bodies = 0
            THEN XDiv(XAbs(Width(c.args.min_energy, c.args.max_energy)), R(2))
            ELSE XDiv(XAbs(Width(c.iter_min, c.iter_max)), R(8))

\* What holds of a frame inside the loop or returned: its width and the value
\* the loop test compares with exit_param are those computed from the initial
\* width and the number of iterations executed, and a returned call has
\* executed the number of iterations computed from max_energy - min_energy,
\* exit_param and max_iterations.
StoppingRule(c) ==
    LET w0 == Width(c.args.min_energy, c.args.max_energy)
    IN  c.pc \in {"while", "body", "returned"} =>
            /\ Width(c.min_energy, c.max_energy) = XMul(w0, XPow(<<3, 4>>, c.bodies))
            /\ XAbs(XSub(c.previous_energy, c.solution.energy))
                  = Comparison(c.bodies, w0)
            /\ Returned(c) =>
                  c.bodies = IterationsFrom(0, w0, c.args.exit_param,
                                            c.args.max_iterations)

====
